---- MODULE Spec2Model ----
(***************************************************************************)
(* Time-Tracker: the session lifecycle of convex/sessions.ts and the user  *)
(* directory of convex/users.ts, as a state machine over the two Convex    *)
(* tables.  Every mutation runs as one atomic step (a Convex mutation is a *)
(* serializable transaction).                                              *)
(*                                                                         *)
(* Instants are integers in milliseconds.  An ISO string is the pair of    *)
(* its date part and its time-of-day part, so that formatting, parsing and *)
(* split('T')[0] are real conversions.  JavaScript values that may be      *)
(* missing are records tagged by k: "undefined", "str", "iso", "num",      *)
(* "nan".                                                                  *)
(***************************************************************************)
EXTENDS Integers, Sequences, FiniteSets, TLC

VARIABLES
    users,          \* the users table: sequence of documents, _id = index
    sessions,       \* the sessions table: function _id -> document
    nextSessionId,  \* the _id the next inserted session document gets
    now,            \* the latest reading of the wall clock (ms, UTC)
    ret,            \* the latest call: operation, argument, outcome (and the
                    \* caller's identity, for the handlers that read it)
    serialized,     \* whether the store runs every mutation as one step
    pending         \* the startSession calls between their query and their
                    \* insert, when the store does not

vars == <<users, sessions, nextSessionId, now, ret, serialized, pending>>

----------------------------------------------------------------------------
(* Bounds of the model *)

\* documents ever inserted into the sessions table
MaxSessions == 2
\* the same, under the specifications of one user and one session at a time
MaxLoneSessions == 1
\* steps of ClockStepMs the wall clock may advance after the initial instant
MaxClockSteps == 1
\* the last day, counted from the epoch, of the instants that are converted
MaxDays == 1
\* startSession calls that may be in flight at once
MaxCalls == 2

----------------------------------------------------------------------------
(* Program constants *)

\* date.getTimezoneOffset() of the server runtime, which runs in UTC
TimezoneOffset == 0
DubaiOffsetMs == 4 * 60 * 60 * 1000
MinuteMs == 1000 * 60
DayMs == 24 * 60 * MinuteMs
HalfMinuteMs == MinuteMs \div 2
\* a minute and a half: 1.5 minutes is a duration Math.round has to round
ClockStepMs == 3 * HalfMinuteMs
TenSecondsMs == HalfMinuteMs \div 3

\* the wall clock at the start: 19:59:30 UTC, half a minute before the
\* Dubai calendar day changes
T0 == 20 * 60 * MinuteMs - HalfMinuteMs

----------------------------------------------------------------------------
(* JavaScript values *)

Undefined == [k |-> "undefined"]
Str(s) == [k |-> "str", s |-> s]
EmptyStr == Str("")
\* a non-empty string that Date cannot parse
InvalidStr == Str("not a date")
Num(n) == [k |-> "num", n |-> n]
\* what .first() and ctx.db.get give when there is no document
Null == [k |-> "null"]
NaN == [k |-> "nan"]

\* Date.prototype.toISOString: "YYYY-MM-DD" "T" "HH:mm:ss.sssZ"
toISOString(ms) == [k |-> "iso", d |-> ms \div DayMs, t |-> ms % DayMs]

\* new Date(isoString).getTime() of a string toISOString produced
getTime(v) == v.d * DayMs + v.t

\* new Date(string) is a valid date
IsValidDate(v) == v.k = "iso"

\* toISOString().split('T')[0]: the date label, here the day number
DatePart(iso) == iso.d

\* truthiness of an optional string
Truthy(v) == v.k = "iso" \/ (v.k = "str" /\ v.s # "")

\* a || b on optional strings
OrElse(a, b) == IF Truthy(a) THEN a ELSE b

\* the quotient is truncated, as Math.floor does
MathFloor(n, d) == n \div d

\* Math.round(n / d) for d > 0: the nearest integer, halves towards +infinity
MathRound(n, d) == (2 * n + d) \div (2 * d)

----------------------------------------------------------------------------
(* Time normalization, convex/sessions.ts *)

\* the shift to Dubai time is left out
toUtcTime(ms) == ms + TimezoneOffset * 60000

toDubaiTime(ms) == (ms + TimezoneOffset * 60000) + DubaiOffsetMs

\* the date is taken from the instant before its shift
formatUtcDate(ms) == DatePart(toISOString(ms))

formatDubaiDate(ms) == DatePart(toISOString(toDubaiTime(ms)))

formatDubaiTime(ms) == toISOString(toDubaiTime(ms))

\* Math.round((end.getTime() - start.getTime()) / (1000 * 60))
DurationMinutes(startMs, endMs) == MathRound(endMs - startMs, MinuteMs)

----------------------------------------------------------------------------
(* Error messages *)

Ok == "ok"
ErrOngoing == "User already has an ongoing session"
ErrNotFound == "Session not found"
ErrEnded == "Session is already ended"
ErrNotAuthenticated == "Not authenticated"
ErrUnauthorized == "Unauthorized"
ErrRange == "RangeError: Invalid time value"

----------------------------------------------------------------------------
(* Inputs *)

\* external identities issued by the identity provider
ClerkIds == {"clerk_a", "clerk_b"}
\* ctx.auth.getUserIdentity() of an unauthenticated caller
Anonymous == "anonymous"
CallersOf(clerks) == clerks \cup {Anonymous}

UserIds == 1 .. Len(users)
SessionIds == 1 .. MaxSessions

\* what the wall clock may have advanced by at its next reading
Elapsed == {0, ClockStepMs}
ClockEnd == T0 + MaxClockSteps * ClockStepMs

\* instants a client sends as ISO strings
Instants == {T0, T0 + ClockStepMs}
IsoStrings == {toISOString(t) : t \in Instants}
LaterString == toISOString(T0 + ClockStepMs)
\* v.string(): an ISO string or a string that is no date
TimeStrings == {toISOString(T0), InvalidStr}
\* v.string(): an ISO string or the empty string
MaybeEmptyStrings == IsoStrings \cup {EmptyStr}
\* the clock's instants and one 20 s before the later of them
NearInstant == T0 + ClockStepMs - 2 * TenSecondsMs
ClockStrings == IsoStrings \cup {toISOString(NearInstant)}
\* the same three instants on the day before, for entries made afterwards
PastShiftMs == DayMs + ClockStepMs
YesterdayStrings ==
    {toISOString(t - PastShiftMs) : t \in {T0, NearInstant, T0 + ClockStepMs}}
EarlierString == toISOString(T0 - PastShiftMs)
\* the strings of a set that a date picker can produce
ValidOf(S) == {s \in S : IsValidDate(s)}
\* v.optional(v.string())
Opt(S) == S \cup {Undefined}
Descriptions == {Str("work")}

----------------------------------------------------------------------------
(* The store *)

Call(op, arg, err) == [op |-> op, arg |-> arg, err |-> err]
CallBy(caller, op, arg, err) == [op |-> op, arg |-> arg, err |-> err, caller |-> caller]

\* the query finds no user
UserByClerkIdNone(c) == 0

\* ctx.db.query("users").withIndex("by_clerkUserId", eq(clerkUserId)).first()
UserByClerkId(c) ==
    LET found == {u \in UserIds : users[u].clerkUserId = c}
    IN  IF found = {} THEN 0 ELSE CHOOSE u \in found : \A w \in found : u <= w

\* the filter is inverted: the sessions of a user that have an endTime
OngoingOfEnded(tbl, u) ==
    {id \in DOMAIN tbl : tbl[id].userId = u /\ tbl[id].endTime # Undefined}

\* the sessions of a user whose endTime field is undefined
OngoingOf(tbl, u) ==
    {id \in DOMAIN tbl : tbl[id].userId = u /\ tbl[id].endTime = Undefined}

\* the insert writes the document under the first id, whatever is there
InsertAtFirstId(tbl, id, doc) ==
    [i \in DOMAIN tbl \cup {1} |-> IF i = 1 THEN doc ELSE tbl[i]]

Insert(tbl, id, doc) == [i \in DOMAIN tbl \cup {id} |-> IF i = id THEN doc ELSE tbl[i]]
\* the document stays in the table
DeleteNothing(tbl, id) == tbl

Delete(tbl, id) == [i \in DOMAIN tbl \ {id} |-> tbl[i]]

\* the startSession calls the store may interleave, none of them begun
Calls == 1 .. MaxCalls
Idle == [pc |-> "idle"]
NoCalls == [call \in Calls |-> Idle]

\* a handler that runs as one step leaves the calls in flight as they are
AsOneStep == UNCHANGED <<serialized, pending>>

Init ==
    /\ users = <<>>
    /\ sessions = [id \in {} |-> Undefined]
    /\ nextSessionId = 1
    /\ now = T0
    /\ ret = Call("init", 0, Ok)
    /\ serialized = TRUE
    /\ pending = NoCalls

----------------------------------------------------------------------------
(* users.getOrCreateUser *)

\* return existingUser: the document the first query read
ReturnedUser(existing) == users[existing]

\* the patch replaces every field by the argument, supplied or not
PatchedReplace(old, new) == new

\* ...(args.name && { name: args.name }): a falsy argument adds no field
Patched(old, new) == IF Truthy(new) THEN new ELSE old

GetOrCreateUser(c, name, email, imageUrl, timezone) ==
    LET existing == UserByClerkId(c)
        patched(old, new) == Patched(old, new)
        args == [clerkUserId |-> c, name |-> name, email |-> email,
                 imageUrl |-> imageUrl, timezone |-> timezone]
    IN  /\ IF existing # 0
           THEN /\ users' = [users EXCEPT ![existing] =
                        [clerkUserId |-> @.clerkUserId,
                         name |-> patched(@.name, name),
                         email |-> patched(@.email, email),
                         imageUrl |-> patched(@.imageUrl, imageUrl),
                         timezone |-> patched(@.timezone, timezone)]]
                /\ ret' = [op |-> "getOrCreateUser", arg |-> existing, err |-> Ok,
                           args |-> args, val |-> ReturnedUser(existing)]
           ELSE /\ users' = Append(users,
                        [clerkUserId |-> c, name |-> name, email |-> email,
                         imageUrl |-> imageUrl, timezone |-> timezone])
                /\ ret' = [op |-> "getOrCreateUser", arg |-> Len(users) + 1, err |-> Ok,
                           args |-> args, val |-> users'[Len(users) + 1]]
        /\ UNCHANGED <<sessions, nextSessionId, now>>

----------------------------------------------------------------------------
(* sessions.startSession *)

\* the query compares endTime with a value no open session holds
HasOngoingEmptyEnd(u) ==
    {id \in DOMAIN sessions :
        sessions[id].userId = u /\ sessions[id].endTime = EmptyStr} # {}

\* the query leaves out the filter on endTime
HasOngoingAnySession(u) ==
    {id \in DOMAIN sessions : sessions[id].userId = u} # {}

\* the query of the ongoing session found one
HasOngoing(u) == OngoingOf(sessions, u) # {}

StartDoc(u, description, t) ==
    [userId |-> u,
     date |-> formatDubaiDate(t),
     startTime |-> formatDubaiTime(t),
     endTime |-> Undefined,
     duration |-> Undefined,
     description |-> description]

\* the handler throws after its insert, and the insert is not rolled back
StartSessionInsertThenThrow(caller, u, description, e) ==
    /\ now' = now + e
    /\ sessions' = Insert(sessions, nextSessionId, StartDoc(u, description, now'))
    /\ nextSessionId' = nextSessionId + 1
    /\ ret' = CallBy(caller, "startSession", u, IF HasOngoing(u) THEN ErrOngoing ELSE Ok)
    /\ UNCHANGED users

\* the handler takes the user from its argument and never reads the caller's
\* identity
StartSession(caller, u, description, e) ==
    /\ now' = now + e
    /\ IF HasOngoing(u)
       THEN /\ ret' = CallBy(caller, "startSession", u, ErrOngoing)
            /\ UNCHANGED <<sessions, nextSessionId>>
       ELSE /\ sessions' = Insert(sessions, nextSessionId, StartDoc(u, description, now'))
            /\ nextSessionId' = nextSessionId + 1
            /\ ret' = CallBy(caller, "startSession", u, Ok)
    /\ UNCHANGED users

\* startSession on a store that does not serialize it, first part: the query
\* for an ongoing session, whose answer the call keeps
StartSessionQuery(call, caller, u) ==
    /\ pending[call] = Idle
    /\ pending' = [pending EXCEPT ![call] =
                       [pc |-> "queried", caller |-> caller, userId |-> u,
                        ongoingSession |-> HasOngoing(u)]]
    /\ UNCHANGED <<users, sessions, nextSessionId, now, ret, serialized>>

\* second part: the throw or the insert, decided by what the query answered
StartSessionInsert(call) ==
    LET args == pending[call]
    IN  /\ args # Idle
        /\ IF args.ongoingSession
           THEN /\ ret' = CallBy(args.caller, "startSession", args.userId, ErrOngoing)
                /\ UNCHANGED <<sessions, nextSessionId>>
           ELSE /\ sessions' = Insert(sessions, nextSessionId,
                                      StartDoc(args.userId, Undefined, now))
                /\ nextSessionId' = nextSessionId + 1
                /\ ret' = CallBy(args.caller, "startSession", args.userId, Ok)
        /\ pending' = [pending EXCEPT ![call] = Idle]
        /\ UNCHANGED <<users, now, serialized>>

----------------------------------------------------------------------------
(* sessions.endSession *)

\* the handler leaves out the check of session.endTime
EndErrorNoEndedCheck(sid) ==
    IF sid \notin DOMAIN sessions THEN ErrNotFound ELSE Ok

\* the handler reports a missing session with the other message
EndErrorSwappedMessage(sid) ==
    IF sid \notin DOMAIN sessions THEN ErrEnded
    ELSE IF Truthy(sessions[sid].endTime) THEN ErrEnded
    ELSE Ok

EndError(sid) ==
    IF sid \notin DOMAIN sessions THEN ErrNotFound
    ELSE IF Truthy(sessions[sid].endTime) THEN ErrEnded
    ELSE Ok

\* the duration endSession computes from the stored start and the clock
EndDuration(startTime, t) ==
    IF IsValidDate(startTime)
    THEN Num(DurationMinutes(getTime(startTime), toDubaiTime(t)))
    ELSE NaN

\* the handler never reads the caller's identity
EndSession(caller, sid, e) ==
    /\ ret' = CallBy(caller, "endSession", sid, EndError(sid))
    /\ IF EndError(sid) # Ok
       THEN UNCHANGED <<sessions, now>>
       ELSE /\ now' = now + e
            /\ sessions' = [sessions EXCEPT ![sid] =
                    [@ EXCEPT !.endTime = formatDubaiTime(now'),
                              !.duration = EndDuration(sessions[sid].startTime, now')]]
    /\ UNCHANGED <<users, nextSessionId>>

----------------------------------------------------------------------------
(* sessions.createManualSession *)

ManualError(startTimeStr, endTimeStr) ==
    IF IsValidDate(startTimeStr) /\ IsValidDate(endTimeStr) THEN Ok ELSE ErrRange

\* the handler inserts the document startSession inserts
ManualDocOpen(u, startTimeStr, endTimeStr, description) ==
    [userId |-> u,
     date |-> formatDubaiDate(getTime(startTimeStr)),
     startTime |-> formatDubaiTime(getTime(startTimeStr)),
     endTime |-> Undefined,
     duration |-> Undefined,
     description |-> description]

ManualDoc(u, startTimeStr, endTimeStr, description) ==
    [userId |-> u,
     date |-> formatDubaiDate(getTime(startTimeStr)),
     startTime |-> formatDubaiTime(getTime(startTimeStr)),
     endTime |-> formatDubaiTime(getTime(endTimeStr)),
     duration |-> Num(DurationMinutes(getTime(startTimeStr), getTime(endTimeStr))),
     description |-> description]

\* the handler takes the user from its argument and never reads the caller's
\* identity
CreateManualSession(caller, u, startTimeStr, endTimeStr, description) ==
    /\ ret' = CallBy(caller, "createManualSession", u, ManualError(startTimeStr, endTimeStr))
    /\ IF ManualError(startTimeStr, endTimeStr) # Ok
       THEN UNCHANGED <<sessions, nextSessionId>>
       ELSE /\ sessions' = Insert(sessions, nextSessionId,
                    ManualDoc(u, startTimeStr, endTimeStr, description))
            /\ nextSessionId' = nextSessionId + 1
    /\ UNCHANGED <<users, now>>

----------------------------------------------------------------------------
(* The manual-entry form of the client, TimeTracker.handleSubmit *)

ErrEndNotAfterStart == "End time must be after start time."

\* endDateTime <= startDateTime
EndNotAfterStart(startTimeStr, endTimeStr) == getTime(endTimeStr) <= getTime(startTimeStr)

HandleSubmit(caller, u, startTimeStr, endTimeStr, description) ==
    IF EndNotAfterStart(startTimeStr, endTimeStr)
    THEN /\ ret' = CallBy(caller, "handleSubmit", u, ErrEndNotAfterStart)
         /\ UNCHANGED <<users, sessions, nextSessionId, now>>
    ELSE CreateManualSession(caller, u, startTimeStr, endTimeStr, description)

----------------------------------------------------------------------------
(* sessions.updateSession and sessions.deleteSession *)

\* the handler checks that the caller has a user record, not whose it is
OwnerErrorAnyUser(caller, sid) ==
    IF sid \notin DOMAIN sessions THEN ErrNotFound
    ELSE IF caller = Anonymous THEN ErrNotAuthenticated
    ELSE IF UserByClerkId(caller) = 0 THEN ErrUnauthorized
    ELSE Ok

\* the checks both handlers make before they touch the document
OwnerError(caller, sid) ==
    IF sid \notin DOMAIN sessions THEN ErrNotFound
    ELSE IF caller = Anonymous THEN ErrNotAuthenticated
    ELSE IF UserByClerkId(caller) = 0 \/ UserByClerkId(caller) # sessions[sid].userId
         THEN ErrUnauthorized
    ELSE Ok

\* formatDubaiTime(new Date(s)) throws for a truthy string that is no date
UpdateError(caller, sid, startTime, endTime) ==
    IF OwnerError(caller, sid) # Ok THEN OwnerError(caller, sid)
    ELSE IF \/ (Truthy(startTime) /\ ~IsValidDate(startTime))
            \/ (Truthy(endTime) /\ ~IsValidDate(endTime))
         THEN ErrRange
    ELSE Ok

\* finalUpdates.startTime / finalUpdates.endTime: converted when truthy, else
\* the argument as it came ({ ...updates })
FinalTime(arg) == IF Truthy(arg) THEN formatDubaiTime(getTime(arg)) ELSE arg

\* the patch replaces the document: a key that is not in it is dropped
PatchFieldReplace(old, upd) == upd

\* ctx.db.patch of one field: a key that is not in the patch keeps its value
PatchField(old, upd) == IF upd = Undefined THEN old ELSE upd

\* finalUpdates.duration, Undefined when the handler does not set it
FinalDuration(doc, startTime, endTime) ==
    LET startTimeStr == OrElse(FinalTime(startTime), doc.startTime)
        endTimeStr == OrElse(FinalTime(endTime), doc.endTime)
    IN  IF (Truthy(startTime) \/ Truthy(endTime))
           /\ Truthy(startTimeStr) /\ Truthy(endTimeStr)
        THEN Num(DurationMinutes(getTime(startTimeStr), getTime(endTimeStr)))
        ELSE Undefined

UpdatedDoc(doc, description, startTime, endTime) ==
    [userId |-> doc.userId,
     date |-> IF Truthy(startTime) THEN formatDubaiDate(getTime(startTime)) ELSE doc.date,
     startTime |-> PatchField(doc.startTime, FinalTime(startTime)),
     endTime |-> PatchField(doc.endTime, FinalTime(endTime)),
     duration |-> PatchField(doc.duration, FinalDuration(doc, startTime, endTime)),
     description |-> PatchField(doc.description, description)]

\* what the handler does to the store
UpdateSessionStore(caller, sid, description, startTime, endTime) ==
    /\ IF UpdateError(caller, sid, startTime, endTime) # Ok
       THEN UNCHANGED sessions
       ELSE sessions' = [sessions EXCEPT ![sid] =
                UpdatedDoc(@, description, startTime, endTime)]
    /\ UNCHANGED <<users, nextSessionId, now>>

UpdateSession(caller, sid, description, startTime, endTime) ==
    /\ ret' = CallBy(caller, "updateSession", sid, UpdateError(caller, sid, startTime, endTime))
    /\ UpdateSessionStore(caller, sid, description, startTime, endTime)

\* the same call, with its updates and the document it read kept in ret
UpdateSessionTraced(caller, sid, description, startTime, endTime) ==
    /\ ret' = [op |-> "updateSession", arg |-> sid, caller |-> caller,
               err |-> UpdateError(caller, sid, startTime, endTime),
               updates |-> [description |-> description, startTime |-> startTime,
                            endTime |-> endTime],
               session |-> IF sid \in DOMAIN sessions THEN sessions[sid] ELSE Null]
    /\ UpdateSessionStore(caller, sid, description, startTime, endTime)

\* the handler refuses to delete a session that has an end
DeleteSessionOpenOnly(caller, sid) ==
    /\ ret' = CallBy(caller, "deleteSession", sid,
            IF OwnerError(caller, sid) = Ok /\ Truthy(sessions[sid].endTime)
            THEN ErrEnded ELSE OwnerError(caller, sid))
    /\ IF OwnerError(caller, sid) # Ok \/ Truthy(sessions[sid].endTime)
       THEN UNCHANGED sessions
       ELSE sessions' = Delete(sessions, sid)
    /\ UNCHANGED <<users, nextSessionId, now>>

DeleteSession(caller, sid) ==
    /\ ret' = CallBy(caller, "deleteSession", sid, OwnerError(caller, sid))
    /\ IF OwnerError(caller, sid) # Ok
       THEN UNCHANGED sessions
       ELSE sessions' = Delete(sessions, sid)
    /\ UNCHANGED <<users, nextSessionId, now>>

----------------------------------------------------------------------------
(* The display conversion of the client, convertDubaiTimeToUserTimezone *)

\* the table timezoneOffsets, its hours written in tenths of an hour
timezoneOffsets ==
    [z \in {"America/New_York", "America/Chicago", "America/Denver",
            "America/Los_Angeles", "Europe/London", "Europe/Paris", "Europe/Berlin",
            "Asia/Dubai", "Asia/Tokyo", "Asia/Shanghai", "Asia/Kolkata",
            "Australia/Sydney", "Australia/Melbourne", "UTC"} |->
        CASE z = "America/New_York" -> -50
          [] z = "America/Chicago" -> -60
          [] z = "America/Denver" -> -70
          [] z = "America/Los_Angeles" -> -80
          [] z = "Europe/London" -> 0
          [] z = "Europe/Paris" -> 10
          [] z = "Europe/Berlin" -> 10
          [] z = "Asia/Dubai" -> 40
          [] z = "Asia/Tokyo" -> 90
          [] z = "Asia/Shanghai" -> 80
          [] z = "Asia/Kolkata" -> 55
          [] z = "Australia/Sydney" -> 100
          [] z = "Australia/Melbourne" -> 100
          [] z = "UTC" -> 0]

TenthOfHourMs == 6 * MinuteMs

\* timezoneOffsets[userTimezone] || 0
OffsetOf(userTimezone) ==
    IF userTimezone.s \in DOMAIN timezoneOffsets THEN timezoneOffsets[userTimezone.s] ELSE 0

\* the function returns the stored instant when no zone is given
ConvertKeepsDubaiTime(dubaiTimeString, userTimezone) ==
    IF ~Truthy(userTimezone) \/ userTimezone = Str("UTC")
    THEN getTime(dubaiTimeString)
    ELSE (getTime(dubaiTimeString) - DubaiOffsetMs) + OffsetOf(userTimezone) * TenthOfHourMs

\* the Date the function returns, in ms
convertDubaiTimeToUserTimezone(dubaiTimeString, userTimezone) ==
    IF ~Truthy(userTimezone) \/ userTimezone = Str("UTC")
    THEN getTime(dubaiTimeString) - DubaiOffsetMs
    ELSE (getTime(dubaiTimeString) - DubaiOffsetMs) + OffsetOf(userTimezone) * TenthOfHourMs

\* instants around the hour at which the Dubai date changes, and around midnight
DayTimes ==
    {0, 1, 20 * 60 * MinuteMs - 1, 20 * 60 * MinuteMs, 20 * 60 * MinuteMs + 1, DayMs - 1}
ConversionInstants == {d * DayMs + t : d \in 0 .. MaxDays, t \in DayTimes}

\* a user's timezone field: absent, empty, "UTC", a zone of the table, another
Zones ==
    {Undefined, EmptyStr, Str("Mars/Olympus_Mons")}
       \cup {Str(z) : z \in DOMAIN timezoneOffsets}

\* an instant to convert
InitConversion ==
    /\ users = <<>>
    /\ sessions = [id \in {} |-> Undefined]
    /\ nextSessionId = 1
    /\ now \in ConversionInstants
    /\ ret = Call("init", 0, Ok)
    /\ serialized = TRUE
    /\ pending = NoCalls

\* the server stores the instant: formatDubaiTime and formatDubaiDate
FormatDubai ==
    /\ ret' = [op |-> "formatDubaiTime", arg |-> now, err |-> Ok,
               val |-> formatDubaiTime(now), date |-> formatDubaiDate(now)]
    /\ UNCHANGED <<users, sessions, nextSessionId, now>>

\* the client displays the stored instant in a user's zone
Display(userTimezone) ==
    /\ ret' = [op |-> "convertDubaiTimeToUserTimezone", arg |-> formatDubaiTime(now),
               err |-> Ok, zone |-> userTimezone,
               val |-> convertDubaiTimeToUserTimezone(formatDubaiTime(now), userTimezone)]
    /\ UNCHANGED <<users, sessions, nextSessionId, now>>

NextConversion ==
    \/ FormatDubai /\ AsOneStep
    \/ \E z \in Zones : Display(z) /\ AsOneStep

SpecConversion == InitConversion /\ [][NextConversion]_vars

----------------------------------------------------------------------------
(* sessions.getCurrentSession *)

\* .first() of the by_user index without the filter on endTime
FirstOfUser(u) ==
    LET found == {id \in DOMAIN sessions : sessions[id].userId = u}
    IN  IF found = {} THEN Null
        ELSE LET id == CHOOSE i \in found : \A j \in found : i <= j
             IN  [id |-> id, doc |-> sessions[id]]

\* by_user, filter eq(endTime, undefined), .first(): the earliest created of
\* the documents found, or null
FirstOngoing(u) ==
    LET found == OngoingOf(sessions, u)
    IN  IF found = {} THEN Null
        ELSE LET id == CHOOSE i \in found : \A j \in found : i <= j
             IN  [id |-> id, doc |-> sessions[id]]

GetCurrentSession(u) ==
    /\ ret' = [op |-> "getCurrentSession", arg |-> u, err |-> Ok, val |-> FirstOngoing(u)]
    /\ UNCHANGED <<users, sessions, nextSessionId, now>>

----------------------------------------------------------------------------
(* sessions.getSessionSummary *)

\* a date label sent as a filter, v.optional(v.string())
DateLabel(d) == [k |-> "date", d |-> d]
DateLabels == {DateLabel(0), DateLabel(1)}
DateFilters == Opt(DateLabels)
\* v.string(): a date label or the empty string
RangeLabels == DateLabels \cup {EmptyStr}
RangeFilters == Opt(RangeLabels)

\* a <= b on strings that are date labels or empty: "" sorts before every
\* label, labels of one width sort as their days do
LabelLeq(a, b) ==
    IF a = EmptyStr THEN TRUE
    ELSE IF b = EmptyStr THEN FALSE
    ELSE a.d <= b.d

\* a number that is truthy: neither undefined, NaN nor 0
TruthyNum(v) == v.k = "num" /\ v.n # 0

\* by_user, then the filters on date that the truthy arguments add
SummaryIds(u, startDate, endDate) ==
    {id \in DOMAIN sessions :
        /\ sessions[id].userId = u
        /\ startDate.k = "date" => sessions[id].date >= startDate.d
        /\ endDate.k = "date" => sessions[id].date <= endDate.d}

\* sessions.filter(s => s.endTime && s.duration)
CompletedIds(ids) ==
    {id \in ids : Truthy(sessions[id].endTime) /\ TruthyNum(sessions[id].duration)}

\* reduce((sum, session) => sum + session.duration, 0)
RECURSIVE SumDuration(_)
SumDuration(ids) ==
    IF ids = {} THEN 0
    ELSE LET id == CHOOSE i \in ids : TRUE
         IN  (IF sessions[id].duration.k = "num" THEN sessions[id].duration.n ELSE 0)
                + SumDuration(ids \ {id})

\* a quotient n / d of two integers, kept as the pair
Quot(n, d) == [n |-> n, d |-> d]

GetSessionSummary(u, startDate, endDate) ==
    LET all == SummaryIds(u, startDate, endDate)
        completedSessions == CompletedIds(all)
        totalDuration == SumDuration(completedSessions)
        totalSessions == Cardinality(all)
        completedCount == Cardinality(completedSessions)
    IN  /\ ret' = [op |-> "getSessionSummary", arg |-> u, err |-> Ok,
                   startDate |-> startDate, endDate |-> endDate,
                   val |-> [totalSessions |-> totalSessions,
                            completedSessions |-> completedCount,
                            totalDuration |-> totalDuration,
                            averageDuration |->
                                IF completedCount > 0
                                THEN Quot(totalDuration, completedCount)
                                ELSE Quot(0, 1),
                            completionRate |->
                                IF totalSessions > 0
                                THEN Quot(completedCount * 100, totalSessions)
                                ELSE Quot(0, 1)]]
        /\ UNCHANGED <<users, sessions, nextSessionId, now>>

----------------------------------------------------------------------------
(* users.getUserStats *)

\* sessions.filter(s => s.endTime)
EndedIds(ids) == {id \in ids : Truthy(sessions[id].endTime)}

\* reduce((sum, session) => sum + (session.duration || 0), 0), over durations
\* that are numbers or absent
GetUserStats(u) ==
    LET all == {id \in DOMAIN sessions : sessions[id].userId = u}
        completedSessions == EndedIds(all)
        totalDuration == SumDuration(completedSessions)
        completedCount == Cardinality(completedSessions)
    IN  /\ ret' = [op |-> "getUserStats", arg |-> u, err |-> Ok,
                   val |-> [totalSessions |-> Cardinality(all),
                            completedSessions |-> completedCount,
                            totalDuration |-> totalDuration,
                            averageSessionDuration |->
                                IF completedCount > 0
                                THEN Quot(totalDuration, completedCount)
                                ELSE Quot(0, 1)]]
        /\ UNCHANGED <<users, sessions, nextSessionId, now>>

----------------------------------------------------------------------------
(* sessions.getSessionsByDateRange *)

\* the upper bound is exclusive
RangeIdsBelowEnd(u, startDate, endDate) ==
    {id \in DOMAIN sessions :
        /\ sessions[id].userId = u
        /\ LabelLeq(startDate, DateLabel(sessions[id].date))
        /\ ~LabelLeq(endDate, DateLabel(sessions[id].date))}

\* by_user, gte(date, startDate), lte(date, endDate)
RangeIds(u, startDate, endDate) ==
    {id \in DOMAIN sessions :
        /\ sessions[id].userId = u
        /\ LabelLeq(startDate, DateLabel(sessions[id].date))
        /\ LabelLeq(DateLabel(sessions[id].date), endDate)}

\* .collect(): the documents found, as a function of their id
GetSessionsByDateRange(u, startDate, endDate) ==
    /\ ret' = [op |-> "getSessionsByDateRange", arg |-> u, err |-> Ok,
               startDate |-> startDate, endDate |-> endDate,
               val |-> [id \in RangeIds(u, startDate, endDate) |-> sessions[id]]]
    /\ UNCHANGED <<users, sessions, nextSessionId, now>>

----------------------------------------------------------------------------
(* sessions.getLastDayStats *)

\* yesterday.setDate(yesterday.getDate() - 1), in a runtime without daylight
\* saving, then formatDubaiDate
LastDayDate == formatDubaiDate(now - DayMs)

\* by_user_date: the user's sessions whose date label is yesterday's
LastDayIds(u) ==
    {id \in DOMAIN sessions : sessions[id].userId = u /\ sessions[id].date = LastDayDate}

\* sessions.filter(s => !s.endTime)
OngoingIds(ids) == {id \in ids : ~Truthy(sessions[id].endTime)}

\* the flag is taken from the duration
EchoByDuration(id) ==
    [id |-> id,
     startTime |-> sessions[id].startTime,
     endTime |-> sessions[id].endTime,
     duration |-> sessions[id].duration,
     description |-> sessions[id].description,
     isOngoing |-> ~TruthyNum(sessions[id].duration)]

\* the element sessions.map(...) makes of a session
Echo(id) ==
    [id |-> id,
     startTime |-> sessions[id].startTime,
     endTime |-> sessions[id].endTime,
     duration |-> sessions[id].duration,
     description |-> sessions[id].description,
     isOngoing |-> ~Truthy(sessions[id].endTime)]

\* the object the handler returns, its list of sessions as a function of id
LastDayStats(u) ==
    LET all == LastDayIds(u)
        completedSessions == CompletedIds(all)
        ongoingSessions == OngoingIds(all)
        totalDuration == SumDuration(completedSessions)
        totalSessions == Cardinality(all)
        completedCount == Cardinality(completedSessions)
        ongoingCount == Cardinality(ongoingSessions)
    IN  [date |-> LastDayDate,
         totalSessions |-> totalSessions,
         completedSessions |-> completedCount,
         ongoingSessions |-> ongoingCount,
         totalDuration |-> totalDuration,
         averageDuration |->
             IF completedCount > 0 THEN MathRound(totalDuration, completedCount) ELSE 0,
         completionRate |->
             IF totalSessions > 0 THEN MathRound(completedCount * 100, totalSessions) ELSE 0,
         hasOngoingSession |-> ongoingCount > 0,
         sessions |-> [id \in all |-> Echo(id)]]

GetLastDayStats(u) ==
    /\ ret' = [op |-> "getLastDayStats", arg |-> u, err |-> Ok, val |-> LastDayStats(u)]
    /\ UNCHANGED <<users, sessions, nextSessionId, now>>

----------------------------------------------------------------------------
(* sessions.getAllUsersLastDayStats *)

\* v.optional(v.string()): the names a call may carry
ProfileNames == {Undefined, EmptyStr, Str("Ann"), Str("Bea")}

\* the email address each identity registers with, when it gives one: the
\* first identity has the later address
EmailOf(c) == IF c = "clerk_a" THEN Str("bob@x.io") ELSE Str("ann@x.io")

\* the place of a string among the strings of the model in the order of
\* String.prototype.localeCompare
CollationRank(s) ==
    CASE s = "" -> 0
      [] s = "ann@x.io" -> 1
      [] s = "bob@x.io" -> 2

\* a.localeCompare(b): negative, 0 or positive
localeCompare(a, b) == CollationRank(a) - CollationRank(b)

\* email || ''
EmailKey(email) == IF Truthy(email) THEN email.s ELSE ""

\* the completed sessions are taken by their end time alone
UserLastDayStatsByEnd(u) ==
    LET all == LastDayIds(u)
        completedSessions == {id \in all : Truthy(sessions[id].endTime)}
        ongoingSessions == {id \in all : ~Truthy(sessions[id].endTime)}
        totalDuration == SumDuration(completedSessions)
        totalSessions == Cardinality(all)
        completedCount == Cardinality(completedSessions)
        ongoingCount == Cardinality(ongoingSessions)
    IN  [email |-> users[u].email,
         userId |-> u,
         name |-> users[u].name,
         date |-> LastDayDate,
         totalSessions |-> totalSessions,
         completedSessions |-> completedCount,
         ongoingSessions |-> ongoingCount,
         totalDuration |-> totalDuration,
         averageDuration |->
             IF completedCount > 0 THEN MathRound(totalDuration, completedCount) ELSE 0,
         completionRate |->
             IF totalSessions > 0 THEN MathRound(completedCount * 100, totalSessions) ELSE 0,
         hasOngoingSession |-> ongoingCount > 0,
         sessions |-> [id \in all |-> Echo(id)]]

\* the element of allStats for a user: the handler's own query, filters and
\* arithmetic inside users.map
UserLastDayStats(u) ==
    LET all == LastDayIds(u)
        completedSessions ==
            {id \in all : Truthy(sessions[id].endTime) /\ TruthyNum(sessions[id].duration)}
        ongoingSessions == {id \in all : ~Truthy(sessions[id].endTime)}
        totalDuration == SumDuration(completedSessions)
        totalSessions == Cardinality(all)
        completedCount == Cardinality(completedSessions)
        ongoingCount == Cardinality(ongoingSessions)
    IN  [email |-> users[u].email,
         userId |-> u,
         name |-> users[u].name,
         date |-> LastDayDate,
         totalSessions |-> totalSessions,
         completedSessions |-> completedCount,
         ongoingSessions |-> ongoingCount,
         totalDuration |-> totalDuration,
         averageDuration |->
             IF completedCount > 0 THEN MathRound(totalDuration, completedCount) ELSE 0,
         completionRate |->
             IF totalSessions > 0 THEN MathRound(completedCount * 100, totalSessions) ELSE 0,
         hasOngoingSession |-> ongoingCount > 0,
         sessions |-> [id \in all |-> Echo(id)]]

\* the sort is left out: the entries stay in the order of the users table
InsertAtEnd(sorted, st) == Append(sorted, st)

\* st put into a sorted sequence after every element that does not compare
\* greater: Array.prototype.sort is stable
InsertByEmail(sorted, st) ==
    LET before == {i \in 1 .. Len(sorted) :
                      localeCompare(EmailKey(sorted[i].email), EmailKey(st.email)) <= 0}
        n == Cardinality(before)
    IN  SubSeq(sorted, 1, n) \o <<st>> \o SubSeq(sorted, n + 1, Len(sorted))

\* .sort((a, b) => (a.email || '').localeCompare(b.email || ''))
RECURSIVE SortByEmail(_)
SortByEmail(stats) ==
    IF stats = <<>> THEN <<>>
    ELSE InsertByEmail(SortByEmail(SubSeq(stats, 1, Len(stats) - 1)), stats[Len(stats)])

\* the filter is left out: every user has an entry
ActiveAll(st) == TRUE

\* .filter(stats => stats.totalSessions > 0)
Active(st) == st.totalSessions > 0

GetAllUsersLastDayStats ==
    LET allStats == [u \in UserIds |-> UserLastDayStats(u)]
        activeUsersStats == SortByEmail(SelectSeq(allStats, Active))
    IN  /\ ret' = [op |-> "getAllUsersLastDayStats", arg |-> 0, err |-> Ok,
                   val |-> [date |-> LastDayDate,
                            totalActiveUsers |-> Len(activeUsersStats),
                            usersStats |-> activeUsersStats]]
        /\ UNCHANGED <<users, sessions, nextSessionId, now>>

----------------------------------------------------------------------------
(* The HTTP actions *)

\* a string of the URL's query, kept as its characters
Chars(c) == [k |-> "chars", c |-> c]

\* the UTF-16 code unit of a character of the model's strings
Digits == <<"0", "1", "2", "3", "4", "5", "6", "7", "8", "9">>
CharCode(ch) ==
    IF ch = "-" THEN 45
    ELSE IF ch = "/" THEN 47
    ELSE 48 + (CHOOSE i \in 0 .. 9 : Digits[i + 1] = ch)
IsDigit(ch) == \E i \in 1 .. 10 : Digits[i] = ch

\* the values of startDate and endDate a request may carry: no parameter,
\* "", three dates and two strings that are no dates
DateParams ==
    {Undefined,
     Chars(<<>>),
     Chars(<<"2", "0", "2", "4", "-", "0", "8", "-", "0", "4">>),
     Chars(<<"2", "0", "2", "4", "-", "0", "8", "-", "0", "5">>),
     Chars(<<"2", "0", "2", "3", "-", "1", "2", "-", "3", "1">>),
     Chars(<<"2", "0", "2", "4", "-", "8", "-", "4">>),
     Chars(<<"2", "0", "2", "4", "/", "0", "8", "/", "0", "4">>)}

\* !startDate: searchParams.get gave null or ""
NoDate(p) == p = Undefined \/ p.c = <<>>

\* digits separated by dashes, of any width
dateRegexAnyWidth(p) ==
    \A i \in 1 .. Len(p.c) : p.c[i] = "-" \/ IsDigit(p.c[i])

\* /^\d{4}-\d{2}-\d{2}$/.test(p)
dateRegex(p) ==
    /\ Len(p.c) = 10
    /\ \A i \in 1 .. 10 : IF i \in {5, 8} THEN p.c[i] = "-" ELSE IsDigit(p.c[i])

\* a > b on strings: by the first code unit that differs, a prefix being less
RECURSIVE StrGreater(_, _)
StrGreater(a, b) ==
    IF a = <<>> THEN FALSE
    ELSE IF b = <<>> THEN TRUE
    ELSE IF Head(a) # Head(b) THEN CharCode(Head(a)) > CharCode(Head(b))
    ELSE StrGreater(Tail(a), Tail(b))

ErrDatesRequired ==
    "Both startDate and endDate parameters are required (format: YYYY-MM-DD)"
ErrDateFormat == "Invalid date format. Use YYYY-MM-DD format (e.g., 2024-08-04)"
ErrDateOrder == "startDate must be before or equal to endDate"
ErrUserIdRequired == "userId parameter is required"
ErrInternal == "Internal server error"

\* JSON.stringify(v): the text, kept as the value it is the text of
JSONstringify(v) == [k |-> "json", v |-> v]
\* JSON.stringify({ error: message })
ErrorBody(message) == JSONstringify([error |-> message])

\* ctx.runQuery(api.sessions.getAllUsersTimeFrameStats, ...) resolves to the
\* query's result or rejects
QueryOutcomes == {"returns", "throws"}
allStats == Str("allStats")

getAllUsersTimeFrameStatsHttp(startDate, endDate, outcome) ==
    LET refusal ==
            IF NoDate(startDate) \/ NoDate(endDate) THEN ErrDatesRequired
            ELSE IF ~dateRegex(startDate) \/ ~dateRegex(endDate) THEN ErrDateFormat
            ELSE IF StrGreater(startDate.c, endDate.c) THEN ErrDateOrder
            ELSE Ok
        ran == refusal = Ok
        threw == ran /\ outcome = "throws"
    IN  /\ ret' = [op |-> "getAllUsersTimeFrameStatsHttp", arg |-> 0, err |-> Ok,
                   startDate |-> startDate, endDate |-> endDate,
                   ran |-> ran, threw |-> threw,
                   status |-> IF ~ran THEN 400 ELSE IF threw THEN 500 ELSE 200,
                   body |-> IF ~ran THEN ErrorBody(refusal)
                            ELSE IF threw THEN ErrorBody(ErrInternal)
                            ELSE JSONstringify(allStats)]
        /\ UNCHANGED <<users, sessions, nextSessionId, now>>

\* the string an id of the users table is sent as
IdString(u) == Str(ToString(u))
\* a non-empty string that is no id
NoIdStr == Str("junk")
\* the values of userId a request may carry
UserIdParams == {Undefined, EmptyStr, NoIdStr} \cup {IdString(u) : u \in UserIds}

\* v.id("users"): the argument is the id of a document of users
IsUserId(p) == \E u \in UserIds : p = IdString(u)
UserOfParam(p) == CHOOSE u \in UserIds : p = IdString(u)

\* only a parameter that the URL does not carry counts as missing
NoParamNullOnly(p) == p = Undefined

\* !userIdParam: searchParams.get gave null or ""
NoParam(p) == ~Truthy(p)

getLastDayStatsHttp(userIdParam) ==
    LET ran == ~NoParam(userIdParam)
        threw == ran /\ ~IsUserId(userIdParam)
    IN  /\ ret' = [op |-> "getLastDayStatsHttp", arg |-> 0, err |-> Ok,
                   userId |-> userIdParam, ran |-> ran, threw |-> threw,
                   status |-> IF ~ran THEN 400 ELSE IF threw THEN 500 ELSE 200,
                   body |-> IF ~ran THEN ErrorBody(ErrUserIdRequired)
                            ELSE IF threw THEN ErrorBody(ErrInternal)
                            ELSE JSONstringify(LastDayStats(UserOfParam(userIdParam)))]
        /\ UNCHANGED <<users, sessions, nextSessionId, now>>

----------------------------------------------------------------------------
(* The system *)

\* the model's bounds on a step: the clock and the number of documents
Bounded(cap) == now' <= ClockEnd /\ nextSessionId' <= cap + 1

\* every call the clients may make, their arguments drawn from the given sets;
\* actors are the identities that call the handlers which take the user as an
\* argument
NextOver(clerks, actors, times, patchTimes, descriptions, elapsed, cap) ==
    \/ \E c \in clerks :
          GetOrCreateUser(c, Undefined, Undefined, Undefined, Undefined)
          /\ AsOneStep
    \/ \E caller \in actors, u \in UserIds, d \in Opt(descriptions), e \in elapsed :
          StartSession(caller, u, d, e) /\ Bounded(cap) /\ AsOneStep
    \/ \E caller \in actors, sid \in SessionIds, e \in elapsed :
          EndSession(caller, sid, e) /\ Bounded(cap) /\ AsOneStep
    \/ \E caller \in actors, u \in UserIds, s \in times, t \in times,
          d \in Opt(descriptions) :
          CreateManualSession(caller, u, s, t, d) /\ Bounded(cap) /\ AsOneStep
    \/ \E caller \in actors, u \in UserIds, s \in ValidOf(times), t \in ValidOf(times),
          d \in Opt(descriptions) :
          HandleSubmit(caller, u, s, t, d) /\ Bounded(cap) /\ AsOneStep
    \/ \E caller \in CallersOf(clerks), sid \in SessionIds, d \in Opt(descriptions),
          s \in Opt(patchTimes), t \in Opt(patchTimes) :
          UpdateSession(caller, sid, d, s, t) /\ AsOneStep
    \/ \E caller \in CallersOf(clerks), sid \in SessionIds :
          DeleteSession(caller, sid) /\ AsOneStep

\* two registered users, all calls within one reading of the clock; every
\* time string a client supplies is non-empty; anyone calls any handler
Next ==
    NextOver(ClerkIds, CallersOf(ClerkIds), TimeStrings, TimeStrings, {}, {0}, MaxSessions)

Spec == Init /\ [][Next]_vars

\* one registered user whose sessions carry descriptions
NextNotes ==
    NextOver({"clerk_a"}, {"clerk_a"}, IsoStrings, {LaterString}, Descriptions, {0},
             MaxSessions)

SpecNotes == Init /\ [][NextNotes]_vars

\* one registered user; a client may also supply the empty string as a time
NextEmpty ==
    NextOver({"clerk_a"}, {"clerk_a"}, IsoStrings, MaybeEmptyStrings, {}, {0},
             MaxLoneSessions)

SpecEmpty == Init /\ [][NextEmpty]_vars

\* one registered user; the wall clock advances between the calls
NextClock ==
    NextOver({"clerk_a"}, {"clerk_a"}, ClockStrings, ClockStrings, {}, Elapsed,
             MaxLoneSessions)

SpecClock == Init /\ [][NextClock]_vars

\* one registered user whose sessions are summarised between the calls
NextStats ==
    \/ NextOver({"clerk_a"}, {"clerk_a"}, IsoStrings, {LaterString}, {}, {0}, MaxSessions)
    \/ \E u \in UserIds, startDate \in DateFilters, endDate \in DateFilters :
          GetSessionSummary(u, startDate, endDate) /\ AsOneStep

SpecStats == Init /\ [][NextStats]_vars

\* two registered users whose sessions of two days are listed and summarised
\* between the calls, the filters being labels, empty or left out
NextRange ==
    \/ NextOver(ClerkIds, {"clerk_a"}, {LaterString}, {}, {}, {0}, MaxSessions)
    \/ \E u \in UserIds, startDate \in RangeLabels, endDate \in RangeLabels :
          GetSessionsByDateRange(u, startDate, endDate) /\ AsOneStep
    \/ \E u \in UserIds, startDate \in RangeFilters, endDate \in RangeFilters :
          GetSessionSummary(u, startDate, endDate) /\ AsOneStep

SpecRange == Init /\ [][NextRange]_vars

\* one registered user with at most one session, of today or the day before,
\* and the requests that reach the two HTTP actions
NextHttp ==
    \/ NextOver({"clerk_a"}, {"clerk_a"}, {EarlierString}, {}, {}, {0}, MaxLoneSessions)
    \/ \E userIdParam \in UserIdParams : getLastDayStatsHttp(userIdParam)
          /\ AsOneStep
    \/ \E startDate \in DateParams, endDate \in DateParams, outcome \in QueryOutcomes :
          getAllUsersTimeFrameStatsHttp(startDate, endDate, outcome)
          /\ AsOneStep

SpecHttp == Init /\ [][NextHttp]_vars

\* one registered user who also enters and moves sessions to the day before,
\* and whose last day is summarised between the calls
NextLastDay ==
    \/ NextOver({"clerk_a"}, {"clerk_a"}, YesterdayStrings, {EarlierString}, {}, {0},
                MaxSessions)
    \/ \E u \in UserIds : GetLastDayStats(u) /\ AsOneStep
    \/ \E u \in UserIds : GetSessionSummary(u, Undefined, Undefined)
          /\ AsOneStep

SpecLastDay == Init /\ [][NextLastDay]_vars

\* two users who may register with an email or without, whose sessions of
\* the day before are gathered between the calls
NextAllUsers ==
    \/ NextOver(ClerkIds, {"clerk_a"}, {EarlierString}, {}, {}, {0}, MaxSessions)
    \/ \E c \in ClerkIds :
          GetOrCreateUser(c, Undefined, EmailOf(c), Undefined, Undefined)
          /\ AsOneStep
    \/ GetAllUsersLastDayStats /\ AsOneStep

SpecAllUsers == Init /\ [][NextAllUsers]_vars

\* two users with sessions of the day before, ended or left open, and both
\* of the queries over that day
NextCross ==
    \/ NextOver(ClerkIds, {"clerk_a"}, {EarlierString}, {EarlierString}, {}, {0},
                MaxSessions)
    \/ \E u \in UserIds : GetLastDayStats(u) /\ AsOneStep
    \/ GetAllUsersLastDayStats /\ AsOneStep

SpecCross == Init /\ [][NextCross]_vars

\* a store that serializes startSession or one that does not: on the first
\* the handler is one step, on the second its query and its insert are two
InitSplit ==
    /\ users = <<>>
    /\ sessions = [id \in {} |-> Undefined]
    /\ nextSessionId = 1
    /\ now = T0
    /\ ret = Call("init", 0, Ok)
    /\ serialized \in BOOLEAN
    /\ pending = NoCalls

NextSplit ==
    \/ \E c \in ClerkIds :
          GetOrCreateUser(c, Undefined, Undefined, Undefined, Undefined) /\ AsOneStep
    \/ \E u \in UserIds :
          serialized /\ StartSession("clerk_a", u, Undefined, 0)
              /\ Bounded(MaxSessions) /\ AsOneStep
    \/ \E call \in Calls, u \in UserIds :
          ~serialized /\ StartSessionQuery(call, "clerk_a", u)
    \/ \E call \in Calls : StartSessionInsert(call) /\ Bounded(MaxSessions)
    \/ \E sid \in SessionIds :
          EndSession("clerk_a", sid, 0) /\ Bounded(MaxSessions) /\ AsOneStep

SpecSplit == InitSplit /\ [][NextSplit]_vars

\* two registered users whose current session is asked for between the calls
NextCurrent ==
    \/ NextOver(ClerkIds, {"clerk_a"}, {toISOString(T0)}, {}, {}, {0}, MaxSessions)
    \/ \E u \in UserIds : GetCurrentSession(u) /\ AsOneStep

SpecCurrent == Init /\ [][NextCurrent]_vars

\* one registered user who patches sessions with a description, with an end
\* that may be the empty string, or with both, and whose current session is
\* asked for between the calls
NextPatch ==
    \/ NextOver({"clerk_a"}, {"clerk_a"}, {toISOString(T0)}, {}, {}, {0}, MaxSessions)
    \/ \E sid \in SessionIds, d \in Opt(Descriptions),
          t \in Opt({LaterString, EmptyStr}) :
          UpdateSessionTraced("clerk_a", sid, d, Undefined, t) /\ AsOneStep
    \/ \E u \in UserIds : GetCurrentSession(u) /\ AsOneStep

SpecPatch == Init /\ [][NextPatch]_vars

\* one registered user whose sessions are summarised by both queries
NextUserStats ==
    \/ NextOver({"clerk_a"}, {"clerk_a"}, IsoStrings, {LaterString}, {}, {0}, MaxSessions)
    \/ \E u \in UserIds : GetUserStats(u) /\ AsOneStep
    \/ \E u \in UserIds : GetSessionSummary(u, Undefined, Undefined) /\ AsOneStep

SpecUserStats == Init /\ [][NextUserStats]_vars

\* two identities that sign in again and again, with or without a name, an
\* email and a timezone, each of which may be the empty string
NextUsers ==
    \E c \in ClerkIds, name \in ProfileNames :
       \E email \in Opt({EmailOf(c)}), timezone \in Opt({Str("Asia/Dubai")}) :
          GetOrCreateUser(c, name, email, Undefined, timezone) /\ AsOneStep

SpecUsers == Init /\ [][NextUsers]_vars

----------------------------------------------------------------------------
(* Claims *)

EndAbsent(doc) == doc.endTime = Undefined
OpenCount(tbl, u) == Cardinality({id \in DOMAIN tbl : tbl[id].userId = u /\ EndAbsent(tbl[id])})

C2_SecondStartConflicts ==
    [][(ret'.op = "startSession" /\ OpenCount(sessions, ret'.arg) > 0)
          => /\ ret'.err = ErrOngoing
             /\ OpenCount(sessions', ret'.arg) = 1
             /\ sessions' = sessions]_vars

\* the second startSession was refused and the first one's session is open
C2_Witness ==
    /\ ret.op = "startSession" /\ ret.err = ErrOngoing
    /\ \E id \in DOMAIN sessions :
          /\ sessions[id].userId = ret.arg
          /\ EndAbsent(sessions[id])
          /\ sessions[id].duration = Undefined

C4_EndTwiceConflicts ==
    [][ret'.op = "endSession"
          => /\ (ret'.arg \in DOMAIN sessions /\ EndAbsent(sessions[ret'.arg]))
                   => /\ ret'.err = Ok
                      /\ IsValidDate(sessions'[ret'.arg].endTime)
                      /\ sessions'[ret'.arg].duration # Undefined
             /\ (ret.op = "endSession" /\ ret.err = Ok /\ ret.arg = ret'.arg)
                   => /\ ret'.err = ErrEnded
                      /\ sessions' = sessions]_vars

\* the second endSession of a session was refused
C4_Witness ==
    /\ ret.op = "endSession" /\ ret.err = ErrEnded
    /\ ret.arg \in DOMAIN sessions
    /\ IsValidDate(sessions[ret.arg].endTime)
    /\ sessions[ret.arg].duration # Undefined

\* C5: endSession of an id that is not in the store (never created, or
\* deleted) fails with "Session not found" and changes no session.
C5_EndMissingNotFound ==
    [][(ret'.op = "endSession" /\ ret'.arg \notin DOMAIN sessions)
          => ret'.err = ErrNotFound /\ sessions' = sessions]_vars

\* endSession of a deleted session was refused while another session exists
C5_Witness ==
    /\ ret.op = "endSession" /\ ret.err = ErrNotFound
    /\ ret.arg < nextSessionId
    /\ ret.arg \notin DOMAIN sessions
    /\ DOMAIN sessions # {}

StoredDuration(doc) ==
    IF IsValidDate(doc.startTime)
    THEN Num(DurationMinutes(getTime(doc.startTime), getTime(doc.endTime)))
    ELSE NaN

\* C7: in every reachable state, every session with an end instant has
\* duration = round((end - start) in minutes) of its stored start and end.
C7_DurationOfStoredBoundaries ==
    \A id \in DOMAIN sessions :
        IsValidDate(sessions[id].endTime)
           => sessions[id].duration = StoredDuration(sessions[id])

\* C8: createManualSession with end <= start fails and inserts nothing: a
\* createManualSession that succeeded inserted a session whose end is after
\* its start.
C8_ManualEndAfterStart ==
    (ret.op = "createManualSession" /\ ret.err = Ok)
       => /\ nextSessionId - 1 \in DOMAIN sessions
          /\ getTime(sessions[nextSessionId - 1].endTime)
                > getTime(sessions[nextSessionId - 1].startTime)

\* C9: createManualSession for a user who has an open session succeeds,
\* inserts a new document with end and duration present, and leaves every
\* document there was, the open session among them, as it was, so the user
\* has as many open sessions after as before.
C9_ManualBesideOpen ==
    [][(ret'.op = "createManualSession" /\ OpenCount(sessions, ret'.arg) > 0)
          => /\ ret'.err = Ok
             /\ DOMAIN sessions' = DOMAIN sessions \cup {nextSessionId}
             /\ nextSessionId \notin DOMAIN sessions
             /\ sessions'[nextSessionId].userId = ret'.arg
             /\ IsValidDate(sessions'[nextSessionId].endTime)
             /\ sessions'[nextSessionId].duration.k = "num"
             /\ \A id \in DOMAIN sessions : sessions'[id] = sessions[id]
             /\ OpenCount(sessions', ret'.arg) = OpenCount(sessions, ret'.arg)]_vars

\* a manual entry was inserted after the user's open, described session
C9_Witness ==
    /\ ret.op = "createManualSession" /\ ret.err = Ok
    /\ \E id \in DOMAIN sessions :
          /\ id < nextSessionId - 1
          /\ sessions[id].userId = ret.arg
          /\ EndAbsent(sessions[id])
          /\ sessions[id].duration = Undefined
          /\ sessions[id].description = Str("work")
    /\ ~EndAbsent(sessions[nextSessionId - 1])

\* the caller's user record is the owner of the session
IsOwner(caller, doc) ==
    \E u \in UserIds : users[u].clerkUserId = caller /\ u = doc.userId

\* C10: updateSession of an existing session by an authenticated caller
\* whose user record is not the owner, or who has no user record, fails with
\* "Unauthorized" and leaves the session unchanged; of a missing id it fails
\* with "Session not found" whoever calls.
C10_UpdateByNonOwner ==
    [][ret'.op = "updateSession"
          => /\ ret'.arg \notin DOMAIN sessions
                   => ret'.err = ErrNotFound /\ sessions' = sessions
             /\ (/\ ret'.arg \in DOMAIN sessions
                 /\ ret'.caller # Anonymous
                 /\ ~IsOwner(ret'.caller, sessions[ret'.arg]))
                   => ret'.err = ErrUnauthorized /\ sessions' = sessions]_vars

\* a caller with a user record of their own was refused on another's session
C10_Witness ==
    /\ ret.op = "updateSession" /\ ret.err = ErrUnauthorized
    /\ ret.arg \in DOMAIN sessions
    /\ \E u \in UserIds :
          users[u].clerkUserId = ret.caller /\ u # sessions[ret.arg].userId

\* C11: deleteSession removes the session if and only if it exists and the
\* caller is its owner, whether it is open or closed; any other
\* deleteSession fails and leaves every record in place.
C11_DeleteIffOwner ==
    [][ret'.op = "deleteSession"
          => LET owned == /\ ret'.arg \in DOMAIN sessions
                          /\ IsOwner(ret'.caller, sessions[ret'.arg])
             IN  /\ (ret'.err = Ok) <=> owned
                 /\ owned => sessions' = Delete(sessions, ret'.arg)
                 /\ ~owned => /\ sessions' = sessions
                              /\ ret'.err \in {ErrNotFound, ErrNotAuthenticated,
                                               ErrUnauthorized}]_vars

\* the owner deleted a session while a session of the other user stays
C11_Witness ==
    /\ ret.op = "deleteSession" /\ ret.err = Ok
    /\ ret.arg \notin DOMAIN sessions
    /\ \E id \in DOMAIN sessions, u \in UserIds :
          users[u].clerkUserId = ret.caller /\ sessions[id].userId # u

ModifyingOps ==
    {"startSession", "endSession", "createManualSession", "updateSession", "deleteSession"}

\* the sessions a step inserted, changed or removed
Touched(old, new) ==
    {id \in DOMAIN old \cup DOMAIN new :
        \/ id \notin DOMAIN old
        \/ id \notin DOMAIN new
        \/ old[id] # new[id]}

\* C12: every call of startSession, endSession, createManualSession,
\* updateSession or deleteSession that changes the sessions table is made by
\* the owner of each session it inserts, changes or removes.
C12_OnlyOwnerModifies ==
    [][ret'.op \in ModifyingOps
          => \A id \in Touched(sessions, sessions') :
                IsOwner(ret'.caller,
                        IF id \in DOMAIN sessions' THEN sessions'[id] ELSE sessions[id])]_vars

\* C13: a call of the five mutations that reports a failure leaves the
\* sessions and users tables as they were; one that succeeds commits the
\* whole of its change (one document inserted, removed, or patched with end
\* and duration together).
C13_FailureChangesNothing ==
    [][ret'.op \in ModifyingOps
          => /\ ret'.err # Ok
                   => /\ sessions' = sessions
                      /\ users' = users
                      /\ nextSessionId' = nextSessionId
             /\ ret'.err = Ok
                   => /\ users' = users
                      /\ Touched(sessions, sessions') \subseteq
                            (IF ret'.op \in {"startSession", "createManualSession"}
                             THEN {nextSessionId} ELSE {ret'.arg})
                      /\ ret'.op \in {"startSession", "createManualSession"}
                            => Touched(sessions, sessions') = {nextSessionId}
                      /\ ret'.op = "deleteSession" => ret'.arg \notin DOMAIN sessions'
                      /\ ret'.op = "endSession"
                            => /\ sessions'[ret'.arg].endTime # Undefined
                               /\ sessions'[ret'.arg].duration # Undefined]_vars

\* an updateSession of the owner failed on its time string, after the
\* ownership checks, and the session is still there
C13_Witness ==
    /\ ret.op = "updateSession" /\ ret.err = ErrRange
    /\ ret.arg \in DOMAIN sessions
    /\ IsOwner(ret.caller, sessions[ret.arg])

\* C14: in every reachable state a session has a duration if and only if it
\* has an end instant.
C14_DurationIffEnd ==
    \A id \in DOMAIN sessions :
        (sessions[id].duration # Undefined) <=> IsValidDate(sessions[id].endTime)

\* C15: in every reachable state the date label of each session is the
\* calendar date of its stored start instant.
C15_DateOfStoredStart ==
    \A id \in DOMAIN sessions :
        /\ IsValidDate(sessions[id].startTime)
        /\ sessions[id].date = DatePart(sessions[id].startTime)

TwentyHoursMs == 20 * 60 * MinuteMs

TableMinutes(zone) ==
    CASE zone = Str("America/New_York") -> -300
      [] zone = Str("America/Chicago") -> -360
      [] zone = Str("America/Denver") -> -420
      [] zone = Str("America/Los_Angeles") -> -480
      [] zone \in {Str("Europe/Paris"), Str("Europe/Berlin")} -> 60
      [] zone = Str("Asia/Dubai") -> 240
      [] zone = Str("Asia/Tokyo") -> 540
      [] zone = Str("Asia/Shanghai") -> 480
      [] zone = Str("Asia/Kolkata") -> 330
      [] zone \in {Str("Australia/Sydney"), Str("Australia/Melbourne")} -> 600
      [] OTHER -> 0

\* C17: the displayed instant is the stored instant minus 4 hours plus the
\* table offset of the zone, the offset being 0 for an absent zone, "UTC"
\* and a zone that is not in the table.
C17_DisplayOffset ==
    [][ret'.op = "convertDubaiTimeToUserTimezone"
          => ret'.val = getTime(ret'.arg) - 4 * 60 * 60 * 1000
                           + TableMinutes(ret'.zone) * MinuteMs]_vars

\* an instant was displayed for a user without a timezone
C17_Witness ==
    /\ ret.op = "convertDubaiTimeToUserTimezone"
    /\ ret.zone = Undefined
    /\ ret.val = getTime(ret.arg) - 4 * 60 * 60 * 1000

\* C18: displaying the stored form of an instant t in a zone of the table
\* gives t shifted by exactly the zone's table offset: the 4 hours added for
\* storage are cancelled.
C18_RoundTrip ==
    [][(ret'.op = "convertDubaiTimeToUserTimezone" /\ Truthy(ret'.zone)
          /\ ret'.zone.s \in DOMAIN timezoneOffsets)
          => ret'.val = now + TableMinutes(ret'.zone) * MinuteMs]_vars

\* an instant just before midnight UTC came back shifted by five and a half
\* hours for Asia/Kolkata
C18_Witness ==
    /\ ret.op = "convertDubaiTimeToUserTimezone"
    /\ ret.zone = Str("Asia/Kolkata")
    /\ now % DayMs = DayMs - 1
    /\ ret.val = now + 330 * MinuteMs

\* n is ms / 60000 rounded to the nearest integer, a half rounded up
IsRoundHalfUp(ms, n) ==
    /\ 2 * ms >= (2 * n - 1) * MinuteMs
    /\ 2 * ms < (2 * n + 1) * MinuteMs

\* the length in ms between the stored boundaries of a document
StoredLength(doc) == getTime(doc.endTime) - getTime(doc.startTime)

\* C19: every duration that endSession, createManualSession or updateSession
\* writes is the length between the session's boundaries in minutes, rounded
\* half up: 2 for a length of 90 s, 0 for a length under 30 s.
C19_RoundHalfUp ==
    [][(ret'.op \in {"endSession", "createManualSession", "updateSession"} /\ ret'.err = Ok)
          => \A id \in Touched(sessions, sessions') :
                sessions'[id].duration # Undefined
                   => /\ sessions'[id].duration.k = "num"
                      /\ IsRoundHalfUp(StoredLength(sessions'[id]), sessions'[id].duration.n)
                      /\ StoredLength(sessions'[id]) = 90 * 1000
                            => sessions'[id].duration = Num(2)
                      /\ (/\ StoredLength(sessions'[id]) >= 0
                          /\ StoredLength(sessions'[id]) < 30 * 1000)
                            => sessions'[id].duration = Num(0)]_vars

\* a session was ended 90 s after it was started and has duration 2
C19_Witness ==
    /\ ret.op = "endSession" /\ ret.err = Ok
    /\ ret.arg \in DOMAIN sessions
    /\ sessions[ret.arg].startTime = formatDubaiTime(T0)
    /\ sessions[ret.arg].endTime = formatDubaiTime(T0 + 90 * 1000)
    /\ sessions[ret.arg].duration = Num(2)

\* the sessions with end and duration both present, a duration of 0 included
WithEndAndDuration(ids) ==
    {id \in ids : IsValidDate(sessions[id].endTime) /\ sessions[id].duration.k = "num"}

\* C20: getSessionSummary over no sessions returns averageDuration 0 and
\* completionRate 0; over n sessions of which k have end and duration (a
\* duration of 0 included) it returns completedSessions = k and
\* completionRate = 100 * k / n.
C20_SummaryCounts ==
    [][ret'.op = "getSessionSummary"
          => LET ids == SummaryIds(ret'.arg, ret'.startDate, ret'.endDate)
                 n == Cardinality(ids)
                 k == Cardinality(WithEndAndDuration(ids))
             IN  /\ ret'.val.totalSessions = n
                 /\ n = 0 => /\ ret'.val.averageDuration.n = 0
                             /\ ret'.val.completionRate.n = 0
                 /\ ret'.val.completedSessions = k
                 /\ n > 0 => ret'.val.completionRate.n * n
                                = 100 * k * ret'.val.completionRate.d]_vars

\* C21: getLastDayStats counts every retrieved session as completed or as
\* ongoing: completedSessions + ongoingSessions = totalSessions.
C21_LastDayPartition ==
    [][ret'.op = "getLastDayStats"
          => /\ ret'.val.totalSessions = Cardinality(LastDayIds(ret'.arg))
             /\ ret'.val.completedSessions + ret'.val.ongoingSessions
                   = ret'.val.totalSessions]_vars

\* C22: in getSessionSummary and in getLastDayStats, totalDuration is the sum
\* of the durations of the sessions with end and duration, averageDuration is
\* exactly totalDuration divided by their number k (0 when k = 0) and
\* completionRate is exactly 100 * k / n over the n sessions retrieved.
C22_ExactAverages ==
    [][ret'.op \in {"getSessionSummary", "getLastDayStats"}
          => LET ids == IF ret'.op = "getLastDayStats"
                        THEN LastDayIds(ret'.arg)
                        ELSE SummaryIds(ret'.arg, ret'.startDate, ret'.endDate)
                 n == Cardinality(ids)
                 k == Cardinality(WithEndAndDuration(ids))
                 asQuot(x) == IF ret'.op = "getLastDayStats" THEN Quot(x, 1) ELSE x
                 average == asQuot(ret'.val.averageDuration)
                 rate == asQuot(ret'.val.completionRate)
             IN  /\ ret'.val.totalDuration = SumDuration(WithEndAndDuration(ids))
                 /\ k = 0 => average.n = 0
                 /\ k > 0 => average.n * k = ret'.val.totalDuration * average.d
                 /\ n > 0 => rate.n * n = 100 * k * rate.d]_vars

\* the session has no end instant
NoEndInstant(doc) == ~IsValidDate(doc.endTime)

\* C23: getLastDayStats reports hasOngoingSession exactly when a retrieved
\* session has no end, flags each echoed session isOngoing exactly when it
\* has no end, and for no sessions on the day before returns totalSessions 0,
\* completionRate 0, hasOngoingSession false and an empty list.
C23_OngoingFlags ==
    [][ret'.op = "getLastDayStats"
          => LET ids == LastDayIds(ret'.arg)
             IN  /\ DOMAIN ret'.val.sessions = ids
                 /\ ret'.val.hasOngoingSession
                       <=> (\E id \in ids : NoEndInstant(sessions[id]))
                 /\ \A id \in ids :
                       ret'.val.sessions[id].isOngoing <=> NoEndInstant(sessions[id])
                 /\ ids = {} => /\ ret'.val.totalSessions = 0
                                /\ ret'.val.completionRate = 0
                                /\ ret'.val.hasOngoingSession = FALSE
                                /\ ret'.val.sessions = [id \in {} |-> Undefined]]_vars

\* the last day has an open session beside a closed one of duration 0, and
\* only the open one is flagged
C23_Witness ==
    /\ ret.op = "getLastDayStats"
    /\ ret.val.hasOngoingSession
    /\ ret.val.totalSessions = 2
    /\ \E id, other \in DOMAIN ret.val.sessions :
          /\ ret.val.sessions[id].isOngoing
          /\ ~ret.val.sessions[other].isOngoing
          /\ ret.val.sessions[other].duration = Num(0)

\* the users that have a session dated the day before
ActiveUsers ==
    {u \in UserIds :
        \E id \in DOMAIN sessions :
            sessions[id].userId = u /\ sessions[id].date = LastDayDate}

\* C24: getAllUsersLastDayStats has an entry for a user if and only if the
\* user has at least one session dated in the window, one entry at most, and
\* totalActiveUsers is the number of entries.
C24_EntryIffActive ==
    [][ret'.op = "getAllUsersLastDayStats"
          => LET entries == ret'.val.usersStats
             IN  /\ {entries[i].userId : i \in 1 .. Len(entries)} = ActiveUsers
                 /\ Len(entries) = Cardinality(ActiveUsers)
                 /\ ret'.val.totalActiveUsers = Len(entries)
                 /\ \A i \in 1 .. Len(entries) : entries[i].totalSessions > 0]_vars

\* one of two registered users is listed; the other has a session, of today
C24_Witness ==
    /\ ret.op = "getAllUsersLastDayStats"
    /\ Len(users) = 2
    /\ ret.val.totalActiveUsers = 1
    /\ \E id \in DOMAIN sessions :
          /\ sessions[id].userId # ret.val.usersStats[1].userId
          /\ sessions[id].date # LastDayDate

\* the place of an email in ascending order, an absent one as the empty string
EmailOrder(email) ==
    CASE email = Str("ann@x.io") -> 1
      [] email = Str("bob@x.io") -> 2
      [] OTHER -> 0

\* C25: the entries of getAllUsersLastDayStats are in ascending order of
\* email, an absent email counting as the empty string.
C25_SortedByEmail ==
    [][ret'.op = "getAllUsersLastDayStats"
          => \A i, j \in 1 .. Len(ret'.val.usersStats) :
                i < j => EmailOrder(ret'.val.usersStats[i].email)
                            <= EmailOrder(ret'.val.usersStats[j].email)]_vars

\* the user registered second has no email and is listed first
C25_Witness ==
    /\ ret.op = "getAllUsersLastDayStats"
    /\ Len(ret.val.usersStats) = 2
    /\ ret.val.usersStats[1].userId = 2
    /\ ret.val.usersStats[1].email = Undefined
    /\ ret.val.usersStats[2].email = Str("bob@x.io")

\* the sessions of user u whose date label d has lo <= d where lo binds and
\* d <= hi where hi binds
Within(u, lo, hi, lower, upper) ==
    {id \in DOMAIN sessions :
        /\ sessions[id].userId = u
        /\ lower => LabelLeq(lo, DateLabel(sessions[id].date))
        /\ upper => LabelLeq(DateLabel(sessions[id].date), hi)}

\* C26 as stated: getSessionsByDateRange(u, s, e) returns exactly the sessions
\* of u whose date label d has s <= d <= e as strings, and getSessionSummary
\* counts the sessions of u within the same inclusive bound on every side that
\* is supplied, unbounded on a side that is absent.
C26_InclusiveRange ==
    [][/\ ret'.op = "getSessionsByDateRange"
          => /\ DOMAIN ret'.val
                  = Within(ret'.arg, ret'.startDate, ret'.endDate, TRUE, TRUE)
             /\ \A id \in DOMAIN ret'.val : ret'.val[id] = sessions[id]
       /\ ret'.op = "getSessionSummary"
          => ret'.val.totalSessions
                = Cardinality(Within(ret'.arg, ret'.startDate, ret'.endDate,
                                     ret'.startDate # Undefined,
                                     ret'.endDate # Undefined))]_vars

\* C26 amended: getSessionsByDateRange(u, s, e) returns exactly the sessions
\* of u whose date label d has s <= d <= e as strings, and getSessionSummary
\* counts the sessions of u within the same inclusive bound on every side that
\* is supplied and not the empty string, unbounded on a side that is absent or
\* the empty string.
C26_InclusiveRangeNonEmpty ==
    [][/\ ret'.op = "getSessionsByDateRange"
          => /\ DOMAIN ret'.val
                  = Within(ret'.arg, ret'.startDate, ret'.endDate, TRUE, TRUE)
             /\ \A id \in DOMAIN ret'.val : ret'.val[id] = sessions[id]
       /\ ret'.op = "getSessionSummary"
          => ret'.val.totalSessions
                = Cardinality(Within(ret'.arg, ret'.startDate, ret'.endDate,
                                     ret'.startDate \notin {Undefined, EmptyStr},
                                     ret'.endDate \notin {Undefined, EmptyStr}))]_vars

\* a range of the single later day has returned one session of the user and
\* left out a session of the earlier day
C26_Witness ==
    /\ ret.op = "getSessionsByDateRange"
    /\ ret.startDate = DateLabel(1) /\ ret.endDate = DateLabel(1)
    /\ Cardinality(DOMAIN ret.val) = 1
    /\ \E id \in DOMAIN sessions :
          sessions[id].userId = ret.arg /\ sessions[id].date = 0

\* the dates among the request's parameters, in the order of the calendar
Dec31 == Chars(<<"2", "0", "2", "3", "-", "1", "2", "-", "3", "1">>)
Aug04 == Chars(<<"2", "0", "2", "4", "-", "0", "8", "-", "0", "4">>)
Aug05 == Chars(<<"2", "0", "2", "4", "-", "0", "8", "-", "0", "5">>)
CalendarOrder == <<Dec31, Aug04, Aug05>>
IsCalendarDate(p) == \E i \in 1 .. Len(CalendarOrder) : CalendarOrder[i] = p
CalendarRank(p) == CHOOSE i \in 1 .. Len(CalendarOrder) : CalendarOrder[i] = p

\* C27: the time-frame endpoint answers 400 and does not run the query when
\* startDate or endDate is missing, else when either is not of the form
\* YYYY-MM-DD, else when startDate is after endDate, each with the message of
\* the first check that fails; it answers 200 only when all three checks pass
\* and 500 only when the query was run and failed.
C27_TimeFrameStatus ==
    [][ret'.op = "getAllUsersTimeFrameStatsHttp"
          => LET s == ret'.startDate
                 e == ret'.endDate
                 missing == s \in {Undefined, Chars(<<>>)} \/ e \in {Undefined, Chars(<<>>)}
                 malformed == ~IsCalendarDate(s) \/ ~IsCalendarDate(e)
                 disordered == IF malformed THEN FALSE
                               ELSE CalendarRank(s) > CalendarRank(e)
                 refused(message) == /\ ret'.status = 400
                                     /\ ret'.body = ErrorBody(message)
                                     /\ ~ret'.ran
             IN  /\ missing => refused(ErrDatesRequired)
                 /\ ~missing /\ malformed => refused(ErrDateFormat)
                 /\ disordered => refused(ErrDateOrder)
                 /\ ret'.status = 200
                      => ~missing /\ ~malformed /\ ~disordered /\ ret'.ran /\ ~ret'.threw
                 /\ ret'.status = 500 => ret'.ran /\ ret'.threw
                 /\ ret'.status \in {200, 400, 500}]_vars

\* a request whose dates are well formed and out of order has been refused
C27_Witness ==
    /\ ret.op = "getAllUsersTimeFrameStatsHttp"
    /\ ret.startDate = Aug04 /\ ret.endDate = Dec31
    /\ ret.status = 400 /\ ret.body = ErrorBody(ErrDateOrder)

\* C28: the getLastDayStats endpoint answers 400 when userId is missing or
\* empty, 200 with the result of getLastDayStats for that user when the query
\* succeeds, and 500 with the generic message when the query throws; the
\* handler itself never fails.
C28_LastDayStatus ==
    [][ret'.op = "getLastDayStatsHttp"
          => /\ ret'.err = Ok
             /\ ret'.userId \in {Undefined, EmptyStr}
                  => ret'.status = 400 /\ ret'.body = ErrorBody(ErrUserIdRequired)
             /\ ret'.userId = NoIdStr
                  => ret'.status = 500 /\ ret'.body = ErrorBody(ErrInternal)
             /\ \A u \in UserIds :
                  ret'.userId = IdString(u)
                      => /\ ret'.status = 200
                         /\ ret'.body = JSONstringify(LastDayStats(u))]_vars

\* the endpoint has answered 200 with the stats of a user who has a session
\* of the day before
C28_Witness ==
    /\ ret.op = "getLastDayStatsHttp"
    /\ ret.status = 200
    /\ ret.body.v.totalSessions = 1

\* C29: when the store runs each startSession as one step, no user ever has
\* two open sessions; when the query and the insert of startSession are two
\* steps that interleave, two calls for one user can both find no open
\* session and both insert (the state of C29_Witness).
C29_SerializedOneOpen ==
    serialized => \A u \in UserIds : OpenCount(sessions, u) <= 1

\* on the store that does not serialize, the second of two startSession calls
\* for one user has returned without error and the user has two open sessions
C29_Witness ==
    /\ ~serialized
    /\ ret.op = "startSession" /\ ret.err = Ok
    /\ OpenCount(sessions, ret.arg) = 2

\* the user records that carry the external identity c
RecordsOf(tbl, c) == {u \in 1 .. Len(tbl) : tbl[u].clerkUserId = c}

\* C30: a getOrCreateUser call for an identity that has no record inserts one
\* record with that identity, a call for an identity that has a record
\* inserts none, so that every identity passed so far has exactly one record;
\* and no step of any operation removes a user record or changes its identity.
C30_OneRecordPerIdentity ==
    [][/\ ret'.op = "getOrCreateUser"
          => LET c == users'[ret'.arg].clerkUserId
             IN  /\ RecordsOf(users, c) = {}
                      => Len(users') = Len(users) + 1 /\ ret'.arg = Len(users')
                 /\ RecordsOf(users, c) # {}
                      => Len(users') = Len(users) /\ ret'.arg \in RecordsOf(users, c)
                 /\ Cardinality(RecordsOf(users', c)) = 1
       /\ \A c \in ClerkIds : Cardinality(RecordsOf(users', c)) <= 1
       /\ Len(users') >= Len(users)
       /\ \A u \in UserIds : users'[u].clerkUserId = users[u].clerkUserId]_vars

\* with both identities registered, a later call for the first has returned
\* its record and inserted none
C30_Witness ==
    /\ ret.op = "getOrCreateUser"
    /\ Len(users) = 2
    /\ ret.arg = 1

ProfileFields == {"name", "email", "imageUrl", "timezone"}

\* C31: getOrCreateUser for an identity that has a record sets each of name,
\* email, imageUrl and timezone to the argument when the argument is a
\* non-empty string and leaves it as stored otherwise; the record keeps its
\* place and its identity, a stored field is never cleared, and no other
\* record changes.
C31_PatchOnlySupplied ==
    [][ret'.op = "getOrCreateUser" /\ RecordsOf(users, ret'.args.clerkUserId) # {}
          => LET u == ret'.arg
                 supplied(f) == ret'.args[f] \notin {Undefined, EmptyStr}
             IN  /\ u \in RecordsOf(users, ret'.args.clerkUserId)
                 /\ Len(users') = Len(users)
                 /\ users'[u].clerkUserId = users[u].clerkUserId
                 /\ \A f \in ProfileFields :
                       /\ supplied(f) => users'[u][f] = ret'.args[f]
                       /\ ~supplied(f) => users'[u][f] = users[u][f]
                       /\ users[u][f] # Undefined => users'[u][f] # Undefined
                 /\ \A w \in UserIds \ {u} : users'[w] = users[w]]_vars

\* a later call that carries an empty name and no email has left the stored
\* name and email of the record in place
C31_Witness ==
    /\ ret.op = "getOrCreateUser"
    /\ ret.args.name = EmptyStr /\ ret.args.email = Undefined
    /\ users[ret.arg].name = Str("Ann")
    /\ users[ret.arg].email # Undefined

\* C40: the record getOrCreateUser returns is the record stored for that
\* identity once the call has completed, whether the call inserted it or
\* patched it.
C40_ReturnsStoredRecord ==
    [][ret'.op = "getOrCreateUser" => ret'.val = users'[ret'.arg]]_vars

C36_DeleteOpenReturnsToNone ==
    [][/\ (ret'.op = "deleteSession" /\ ret'.err = Ok /\ EndAbsent(sessions[ret'.arg]))
          => /\ OpenCount(sessions', sessions[ret'.arg].userId) = 0
             /\ ret'.arg \notin DOMAIN sessions'
       /\ (ret.op = "deleteSession" /\ ret.err = Ok
              /\ ret'.op = "endSession" /\ ret'.arg = ret.arg)
          => ret'.err = ErrNotFound
       /\ (ret.op = "deleteSession" /\ ret.err = Ok /\ ret'.op = "startSession"
              /\ OpenCount(sessions, ret'.arg) = 0)
          => ret'.err = Ok /\ OpenCount(sessions', ret'.arg) = 1]_vars

\* the owner has started a session right after deleting the open one
C36_Witness ==
    /\ ret.op = "startSession" /\ ret.err = Ok
    /\ DOMAIN sessions = {2}
    /\ EndAbsent(sessions[2])

\* a successful updateSession whose updates are known
Updated(r) == r.op = "updateSession" /\ r.err = Ok /\ "updates" \in DOMAIN r

\* C34: a successful updateSession of the owner that supplies an end for a
\* session whose end is absent leaves the session with an end and a duration
\* and its owner without an open session; right after it getCurrentSession
\* for the owner returns none, endSession on that id fails with the
\* already-ended error and startSession for the owner succeeds.
C34_UpdateCloses ==
    [][/\ (Updated(ret') /\ ret'.updates.endTime # Undefined
              /\ EndAbsent(ret'.session))
          => /\ IsValidDate(sessions'[ret'.arg].endTime)
             /\ sessions'[ret'.arg].duration.k = "num"
             /\ OpenCount(sessions', sessions[ret'.arg].userId) = 0
       /\ (Updated(ret) /\ ret.updates.endTime # Undefined /\ EndAbsent(ret.session))
          => /\ (ret'.op = "endSession" /\ ret'.arg = ret.arg)
                  => ret'.err = ErrEnded
             /\ (ret'.op = "getCurrentSession" /\ ret'.arg = sessions[ret.arg].userId)
                  => ret'.val = Null
             /\ (ret'.op = "startSession" /\ ret'.arg = sessions[ret.arg].userId)
                  => ret'.err = Ok]_vars

\* C37: a successful updateSession that supplies only a description leaves
\* start, end, duration, date and owner of the session as they were; one that
\* supplies only an end leaves start and date as they were; and no
\* updateSession changes, adds or removes any other session.
C37_UpdateFrame ==
    [][/\ (Updated(ret') /\ ret'.updates.description # Undefined
              /\ ret'.updates.startTime = Undefined /\ ret'.updates.endTime = Undefined)
          => /\ sessions'[ret'.arg].startTime = sessions[ret'.arg].startTime
             /\ sessions'[ret'.arg].endTime = sessions[ret'.arg].endTime
             /\ sessions'[ret'.arg].duration = sessions[ret'.arg].duration
             /\ sessions'[ret'.arg].date = sessions[ret'.arg].date
             /\ sessions'[ret'.arg].userId = sessions[ret'.arg].userId
       /\ (Updated(ret') /\ ret'.updates.endTime # Undefined
              /\ ret'.updates.startTime = Undefined /\ ret'.updates.description = Undefined)
          => /\ sessions'[ret'.arg].startTime = sessions[ret'.arg].startTime
             /\ sessions'[ret'.arg].date = sessions[ret'.arg].date
       /\ ret'.op = "updateSession"
          => /\ DOMAIN sessions' = DOMAIN sessions
             /\ \A id \in DOMAIN sessions \ {ret'.arg} : sessions'[id] = sessions[id]]_vars

\* a description has been given to the second of two sessions, which has an
\* end and a duration
C37_Witness ==
    /\ Updated(ret)
    /\ ret.updates.description = Str("work")
    /\ ret.updates.startTime = Undefined /\ ret.updates.endTime = Undefined
    /\ ret.arg = 2
    /\ sessions[2].description = Str("work")
    /\ IsValidDate(sessions[2].endTime)
    /\ 1 \in DOMAIN sessions

\* C35: in every reachable state, every session with an end instant has its
\* end at or after its start and a duration that is not negative.
C35_EndNotBeforeStart ==
    \A id \in DOMAIN sessions :
        IsValidDate(sessions[id].endTime)
           => /\ IsValidDate(sessions[id].startTime)
                   => getTime(sessions[id].endTime) >= getTime(sessions[id].startTime)
              /\ sessions[id].duration.k = "num" => sessions[id].duration.n >= 0

C39_StatsAgree ==
    [][(ret.op = "getSessionSummary" /\ ret.startDate = Undefined
          /\ ret.endDate = Undefined
          /\ ret'.op = "getUserStats" /\ ret'.arg = ret.arg)
          => /\ ret'.val.totalSessions = ret.val.totalSessions
             /\ ret'.val.completedSessions = ret.val.completedSessions
             /\ ret'.val.totalDuration = ret.val.totalDuration
             /\ ret'.val.averageSessionDuration.n * ret.val.averageDuration.d
                   = ret.val.averageDuration.n * ret'.val.averageSessionDuration.d]_vars

\* the fields the two results have in common
SameLastDayFields(entry, st) ==
    /\ entry.date = st.date
    /\ entry.totalSessions = st.totalSessions
    /\ entry.completedSessions = st.completedSessions
    /\ entry.ongoingSessions = st.ongoingSessions
    /\ entry.totalDuration = st.totalDuration
    /\ entry.averageDuration = st.averageDuration
    /\ entry.completionRate = st.completionRate
    /\ entry.hasOngoingSession = st.hasOngoingSession
    /\ entry.sessions = st.sessions

\* the entries of a cross-user result that are about user u
EntriesOf(r, u) ==
    {i \in 1 .. Len(r.val.usersStats) : r.val.usersStats[i].userId = u}

\* C33: getLastDayStats for a user and getAllUsersLastDayStats, called one
\* after the other on the same store at the same time, in either order,
\* agree on every per-user field of every entry the aggregate has for that
\* user.
C33_AggregateAgrees ==
    [][/\ (ret.op = "getLastDayStats" /\ ret'.op = "getAllUsersLastDayStats")
           => \A i \in EntriesOf(ret', ret.arg) :
                 SameLastDayFields(ret'.val.usersStats[i], ret.val)
       /\ (ret.op = "getAllUsersLastDayStats" /\ ret'.op = "getLastDayStats")
           => \A i \in EntriesOf(ret, ret'.arg) :
                 SameLastDayFields(ret.val.usersStats[i], ret'.val)]_vars

\* an aggregate over two users, one with a session of the day before that
\* has an end and no length, one with a session of that day still open
C33_Witness ==
    /\ ret.op = "getAllUsersLastDayStats"
    /\ Len(ret.val.usersStats) = 2
    /\ \E i \in 1 .. 2 : ret.val.usersStats[i].hasOngoingSession
    /\ \E i \in 1 .. 2 :
          \E id \in DOMAIN ret.val.usersStats[i].sessions :
             /\ Truthy(ret.val.usersStats[i].sessions[id].endTime)
             /\ ~TruthyNum(ret.val.usersStats[i].sessions[id].duration)

====
